---- MODULE Spec2Model ----
(***************************************************************************)
(* A model of the job-shop scheduling core of Smart-scheduling:            *)
(* JobShopScheduler (src/scheduler/scheduler.py) and the one caller of it, *)
(* main() of src/app/app.py.                                               *)
(*                                                                         *)
(* The state is the scheduler object's fields plus the caller's locals.    *)
(* Two specifications are given:                                           *)
(*   Spec       one run of main(): a fresh scheduler, load_data,           *)
(*              create_model, solve, get_makespan and the two utilization  *)
(*              calls, in the order of app.py:46-67; an exception ends the *)
(*              run (app.py:112).                                          *)
(*   SpecReuse  one scheduler object on which a caller makes the public    *)
(*              calls in any order, any number of times.                   *)
(*                                                                         *)
(* The CP-SAT library is not part of the repository.  It is modelled by    *)
(* its contract: a status, and for OPTIMAL / FEASIBLE a valuation of the   *)
(* variables that satisfies the constraints create_model posted.           *)
(*                                                                         *)
(* Inputs are well-formed CSV files: the columns JobID, TaskID, MachineID  *)
(* and Duration are present and hold non-negative integers; a Deadline     *)
(* cell is a non-negative integer or missing (NaN).  Keys (JobID, TaskID)  *)
(* may repeat and rows may come in any order: the code accepts both.       *)
(***************************************************************************)
EXTENDS Integers, Sequences, FiniteSets, TLC

VARIABLES
    jobs_data,      \* self.jobs_data: the DataFrame, [columns, rows]
    machines,       \* self.machines: sorted list of machine ids
    jobs,           \* self.jobs: sorted list of job ids
    horizon,        \* self.horizon
    model,          \* self.model: the CpModel
    solver,         \* self.solver: the CpSolver and its last response
    all_tasks,      \* self.all_tasks: (job, task) -> variables and machine
    result,         \* what the last call on the scheduler did
    schedule_df,    \* caller's local: the DataFrame solve() returned
    makespan,       \* caller's local: what get_makespan() returned
    before_util,    \* caller's local: get_initial_machine_utilization()
    after_util,     \* caller's local: get_optimized_machine_utilization()
    pc              \* position of main() in app.py

fields == <<jobs_data, machines, jobs, horizon, model, solver, all_tasks>>
locals == <<schedule_df, makespan, before_util, after_util>>
vars == <<jobs_data, machines, jobs, horizon, model, solver, all_tasks,
          result, schedule_df, makespan, before_util, after_util, pc>>

---------------------------------------------------------------------------
(* Bounds and input domains.                                               *)

\* Rows of a CSV given to one run of main().
MaxRows == 2
\* Rows of a CSV given to a scheduler that is loaded more than once.
MaxReloadRows == 1

\* A missing Deadline cell (np.nan); every real deadline is >= 0.
NaN == -1

JobIDs == {1, 2}
TaskIDs == {1, 2}
MachineIDs == {1, 2}
Durations == {0, 1}
DeadlineCells == {NaN, 0}

CsvRows ==
    [JobID : JobIDs, TaskID : TaskIDs, MachineID : MachineIDs,
     Duration : Durations, Deadline : DeadlineCells]

\* The CSV files of at most n rows.
Csvs(n) == UNION {[1..k -> CsvRows] : k \in 0..n}

---------------------------------------------------------------------------
(* Helpers over sequences and sets.                                        *)

Max(S) == CHOOSE x \in S : \A y \in S : y <= x

Range(s) == {s[i] : i \in 1..Len(s)}

RECURSIVE SumSeq(_)
SumSeq(s) == IF s = <<>> THEN 0 ELSE s[1] + SumSeq(Tail(s))

\* sorted(x.unique()): the distinct values in ascending order.
SortedUnique(S) ==
    CHOOSE s \in [1..Cardinality(S) -> S] :
        \A i, j \in 1..Cardinality(S) : i < j => s[i] < s[j]

\* df[df['JobID'] == job]: the row indices of a job, in row order.
RowsOfJob(rows, job) ==
    SortedUnique({i \in 1..Len(rows) : rows[i].JobID = job})

\* df[(df['JobID'] == job) & (df['TaskID'] == task)], in row order.
RowsOfTask(rows, job, task) ==
    SortedUnique({i \in 1..Len(rows) :
                     rows[i].JobID = job /\ rows[i].TaskID = task})

---------------------------------------------------------------------------
(* Values.  Python's None is modelled per field by a value of the field's  *)
(* own shape: a DataFrame without columns, an empty list, 0, a CpModel /   *)
(* CpSolver record that is not created.  machines, jobs and horizon are    *)
(* None exactly when jobs_data is: load_data assigns all four.             *)

Columns == {"JobID", "TaskID", "MachineID", "Duration", "Deadline"}

NoFrame == [columns |-> {}, rows |-> <<>>]

Loaded == jobs_data.columns # {}

\* self.model = None
NoModel ==
    [created |-> FALSE, encoded |-> FALSE, bound |-> 0, intervals |-> <<>>,
     no_overlap |-> <<>>, precedence |-> {}, makespan_ends |-> <<>>,
     job_terms |-> <<>>]

\* cp_model.CpModel(): a model without variables or constraints.
EmptyCpModel == [NoModel EXCEPT !.created = TRUE]

\* self.solver = None
NoSolver ==
    [created |-> FALSE, solved |-> FALSE, status |-> "NONE", starts |-> <<>>,
     objective |-> 0]

\* cp_model.CpSolver(): a solver that has no response yet.
NewCpSolver == [NoSolver EXCEPT !.created = TRUE]

\* The attribute self.all_tasks does not exist before create_model ends.
NoTasks == [set |-> FALSE, map |-> <<>>]

\* What a call did: it returned a value (None is <<>>) or raised an error.
Returned(op, value) ==
    [op |-> op, outcome |-> "returned", error |-> "", value |-> value]

Raised(op, error) ==
    [op |-> op, outcome |-> "raised", error |-> error, value |-> <<>>]

NoSchedule == [held |-> FALSE, rows |-> <<>>]

NoNumber == [held |-> FALSE, value |-> 0]

NoMap == [held |-> FALSE, map |-> <<>>]

---------------------------------------------------------------------------
(* load_data, scheduler.py:14-33.                                          *)

\* int(self.jobs_data['Duration'].sum())
TotalDuration(rows) == SumSeq([i \in 1..Len(rows) |-> rows[i].Duration])

\* .fillna(self.horizon).astype(int) on the Deadline column
FillDeadline(rows, h) ==
    [i \in 1..Len(rows) |->
        [rows[i] EXCEPT !.Deadline = IF @ = NaN THEN h ELSE @]]

load_data(csv) ==
    /\ jobs_data' = [columns |-> Columns,
                     rows |-> FillDeadline(csv, TotalDuration(csv))]
    /\ machines' = SortedUnique({csv[i].MachineID : i \in 1..Len(csv)})
    /\ jobs' = SortedUnique({csv[i].JobID : i \in 1..Len(csv)})
    /\ horizon' = TotalDuration(csv)
    /\ result' = Returned("load_data", <<>>)
    /\ UNCHANGED <<model, solver, all_tasks>>

---------------------------------------------------------------------------
(* create_model, scheduler.py:35-114.                                      *)

Key(r) == <<r.JobID, r.TaskID>>

\* all_tasks[job_id, task_id] = {...} for every row in turn: a later row
\* with the same key replaces the earlier entry.  Interval i is the one
\* created for row i.
AllTasks(rows) ==
    [k \in {Key(rows[i]) : i \in 1..Len(rows)} |->
        LET last == Max({i \in 1..Len(rows) : Key(rows[i]) = k})
        IN  [interval |-> last, machine |-> rows[last].MachineID]]

\* A create_model that never appends an interval to its machine's list.
MachineToIntervalsNeverAppended(rows, ms) == [k \in 1..Len(ms) |-> {}]

\* machine_to_intervals[machine_id].append(interval_var), one list per
\* machine of self.machines.
MachineToIntervals(rows, ms) ==
    [k \in 1..Len(ms) |-> {i \in 1..Len(rows) : rows[i].MachineID = ms[k]}]

\* A create_model that takes a job's rows in input order, without the sort.
UnsortedTaskIDs(rows, job) ==
    LET idx == RowsOfJob(rows, job)
    IN  [i \in 1..Len(idx) |-> rows[idx[i]].TaskID]

\* sort_values('TaskID') of a job's rows: the TaskID column in ascending
\* order, repeated values kept.
SortedTaskIDs(rows, job) ==
    LET idx == RowsOfJob(rows, job)
        n == Len(idx)
        Count(f, v) == Cardinality({i \in 1..n : f[i] = v})
        ids == [i \in 1..n |-> rows[idx[i]].TaskID]
    IN  CHOOSE s \in [1..n -> Range(ids)] :
            /\ \A i \in 1..n : \A j \in 1..n : i < j => s[i] <= s[j]
            /\ \A v \in Range(ids) : Count(s, v) = Count(ids, v)

\* The constraints all_tasks[current].end <= all_tasks[next].start, as
\* pairs of interval indices.
Precedence(rows, js) ==
    LET at == AllTasks(rows)
    IN  UNION {
            LET s == SortedTaskIDs(rows, js[k])
            IN  {<<at[<<js[k], s[i]>>].interval,
                   at[<<js[k], s[i + 1]>>].interval>> : i \in 1..(Len(s) - 1)}
            : k \in 1..Len(js)}

\* for job in self.jobs: for task in df[df['JobID'] == job]['TaskID']:
\* the row indices in the order both create_model and solve visit them.
RECURSIVE TaskOrder(_, _, _)
TaskOrder(rows, js, k) ==
    IF k > Len(js) THEN <<>>
    ELSE RowsOfJob(rows, js[k]) \o TaskOrder(rows, js, k + 1)

\* The end variables handed to AddMaxEquality(obj_var, [...]).
MakespanEnds(rows, js) ==
    LET at == AllTasks(rows)
        order == TaskOrder(rows, js, 1)
    IN  [k \in 1..Len(order) |-> at[Key(rows[order[k]])].interval]

\* Per job: the deadline of its first row and the end variables handed to
\* AddMaxEquality(last_task_end, [...]).
JobTerms(rows, js) ==
    LET at == AllTasks(rows)
    IN  [k \in 1..Len(js) |->
            LET idx == RowsOfJob(rows, js[k])
            IN  [deadline |-> rows[idx[1]].Deadline,
                 ends |-> [i \in 1..Len(idx) |->
                              at[Key(rows[idx[i]])].interval]]]

\* The CpModel create_model builds from the loaded instance.
Encode(rows, ms, js, h) ==
    [created |-> TRUE, encoded |-> TRUE, bound |-> h,
     intervals |-> [i \in 1..Len(rows) |-> [size |-> rows[i].Duration]],
     no_overlap |-> MachineToIntervals(rows, ms),
     precedence |-> Precedence(rows, js),
     makespan_ends |-> MakespanEnds(rows, js),
     job_terms |-> JobTerms(rows, js)]

create_model ==
    IF Loaded
    THEN /\ model' = Encode(jobs_data.rows, machines, jobs, horizon)
         /\ solver' = NewCpSolver
         /\ all_tasks' = [set |-> TRUE, map |-> AllTasks(jobs_data.rows)]
         /\ result' = Returned("create_model", <<>>)
         /\ UNCHANGED <<jobs_data, machines, jobs, horizon>>
    ELSE \* self.machines is None: line 42 raises after lines 37-38 ran
         /\ model' = EmptyCpModel
         /\ solver' = NewCpSolver
         /\ result' = Raised("create_model", "TypeError")
         /\ UNCHANGED <<jobs_data, machines, jobs, horizon, all_tasks>>

---------------------------------------------------------------------------
(* The CP-SAT solver, by its contract.  A valuation gives every interval   *)
(* its start; its end is start + size (NewIntervalVar, line 55).           *)

EndOf(m, starts, i) == starts[i] + m.intervals[i].size

\* max(0, last_task_end - job_deadline) of one job term, lines 99-105.
Tardiness(m, starts, term) ==
    LET last_task_end ==
            Max({EndOf(m, starts, term.ends[i]) : i \in 1..Len(term.ends)})
    IN  IF last_task_end > term.deadline
        THEN last_task_end - term.deadline ELSE 0

\* AddNoOverlap of one machine's intervals: some order puts them end to
\* start (intervals of size zero take part).
NoOverlap(m, starts, group) ==
    \A i \in group : \A j \in group :
        i # j => \/ EndOf(m, starts, i) <= starts[j]
                 \/ EndOf(m, starts, j) <= starts[i]

\* Whether a valuation satisfies every constraint of the model.  All
\* variables have the domain [0, bound] (lines 53, 54, 83, 99, 104).
Satisfies(m, starts) ==
    /\ \A i \in 1..Len(m.intervals) : EndOf(m, starts, i) <= m.bound
    /\ \A k \in 1..Len(m.no_overlap) : NoOverlap(m, starts, m.no_overlap[k])
    /\ \A p \in m.precedence : EndOf(m, starts, p[1]) <= starts[p[2]]
    /\ m.encoded => m.makespan_ends # <<>>
    /\ \A k \in 1..Len(m.job_terms) :
          Tardiness(m, starts, m.job_terms[k]) <= m.bound

Solutions(m) ==
    {starts \in [1..Len(m.intervals) -> 0..m.bound] : Satisfies(m, starts)}

\* The objective of line 111: the makespan variable plus every job's
\* tardiness, each with weight 1.  The empty CpModel has objective 0.
ObjectiveValue(m, starts) ==
    IF ~m.encoded THEN 0
    ELSE Max({EndOf(m, starts, m.makespan_ends[k]) :
                 k \in 1..Len(m.makespan_ends)})
         + SumSeq([k \in 1..Len(m.job_terms) |->
                      Tardiness(m, starts, m.job_terms[k])])

OptimalSolutions(m) ==
    {s \in Solutions(m) :
        \A t \in Solutions(m) : ObjectiveValue(m, s) <= ObjectiveValue(m, t)}

\* The responses Solve(model) may give: a proved optimum, a solution not
\* proved optimal, a proof that there is none, or no answer.  A maximum over
\* an empty list has no value; the library may also reject such a model.
Responses(m) ==
    LET some == Solutions(m)
        Answer(st, s) ==
            [created |-> TRUE, solved |-> TRUE, status |-> st, starts |-> s,
             objective |-> ObjectiveValue(m, s)]
        Refusal(st) ==
            [created |-> TRUE, solved |-> TRUE, status |-> st,
             starts |-> <<>>, objective |-> 0]
    IN  {Answer("OPTIMAL", s) : s \in OptimalSolutions(m)}
        \cup {Answer("FEASIBLE", s) : s \in some}
        \cup {Refusal("UNKNOWN")}
        \cup (IF some = {} THEN {Refusal("INFEASIBLE")} ELSE {})
        \cup (IF m.encoded /\ m.makespan_ends = <<>>
              THEN {Refusal("MODEL_INVALID")} ELSE {})

---------------------------------------------------------------------------
(* solve, scheduler.py:116-153.                                            *)

\* The record solve appends for row i of the loaded data (lines 133-147).
SolutionRecord(rows, at, m, response, i) ==
    LET job == rows[i].JobID
        task == rows[i].TaskID
        task_data == at[<<job, task>>]
    IN  [JobID |-> job,
         TaskID |-> task,
         MachineID |-> task_data.machine,
         Start |-> response.starts[task_data.interval],
         End |-> EndOf(m, response.starts, task_data.interval),
         Duration |-> rows[RowsOfTask(rows, job, task)[1]].Duration,
         Deadline |-> rows[RowsOfJob(rows, job)[1]].Deadline]

\* A solve that leaves the loop after the first job.
SolutionOfFirstJob(rows, js, at, m, response) ==
    LET order == IF js = <<>> THEN <<>> ELSE RowsOfJob(rows, js[1])
    IN  [k \in 1..Len(order) |->
            SolutionRecord(rows, at, m, response, order[k])]

\* The loop of lines 131-147 over the fields as they are now.
Solution(rows, js, at, m, response) ==
    LET order == TaskOrder(rows, js, 1)
    IN  [k \in 1..Len(order) |->
            SolutionRecord(rows, at, m, response, order[k])]

\* What lines 128-153 do with a response: the exception raised, or "" when
\* the DataFrame is returned.
SolveError(response) ==
    IF response.status \notin {"OPTIMAL", "FEASIBLE"} THEN "Exception"
    ELSE IF ~Loaded THEN "TypeError"
    ELSE IF jobs_data.rows = <<>> THEN ""
    ELSE IF ~all_tasks.set THEN "AttributeError"
    ELSE IF \E i \in 1..Len(jobs_data.rows) :
                Key(jobs_data.rows[i]) \notin DOMAIN all_tasks.map
         THEN "KeyError"
    ELSE ""

solve ==
    IF ~model.created
    THEN /\ result' = Raised("solve", "ValueError")
         /\ UNCHANGED fields
    ELSE \E response \in Responses(model) :
            /\ solver' = response
            /\ UNCHANGED <<jobs_data, machines, jobs, horizon, model,
                           all_tasks>>
            /\ result' =
                  IF SolveError(response) # ""
                  THEN Raised("solve", SolveError(response))
                  ELSE Returned("solve",
                                Solution(jobs_data.rows, jobs, all_tasks.map,
                                         model, response))

---------------------------------------------------------------------------
(* get_makespan, scheduler.py:155-159.  ObjectiveValue() of a solver that  *)
(* never solved raises inside the library, which error depends on the      *)
(* library's version; after a Solve without solution it gives the          *)
(* response's default, 0.                                                  *)

NoResponseErrors == {"RuntimeError", "AttributeError"}

get_makespan ==
    /\ \E error \in NoResponseErrors :
          result' =
              IF ~solver.created THEN Raised("get_makespan", "ValueError")
              ELSE IF ~solver.solved THEN Raised("get_makespan", error)
              ELSE Returned("get_makespan", solver.objective)
    /\ UNCHANGED fields

---------------------------------------------------------------------------
(* Utilization, scheduler.py:161-177.  A ratio busy / total is kept as the *)
(* pair; 0.0 is 0 / 1.                                                     *)

Ratio(busy, total) == [busy |-> busy, total |-> total]

\* {machine: 0.0 for machine in self.machines}
ZeroMap(ms) == [mc \in Range(ms) |-> Ratio(0, 1)]

\* df.groupby('MachineID')[...].sum(): one entry per machine that has a
\* row, the sum of the rows' amounts.
GroupSum(rows, amount) ==
    [mc \in {rows[i].MachineID : i \in 1..Len(rows)} |->
        SumSeq([i \in 1..Len(rows) |->
                   IF rows[i].MachineID = mc THEN amount[i] ELSE 0])]

InitialUtilization ==
    LET rows == jobs_data.rows
        machine_durations ==
            GroupSum(rows, [i \in 1..Len(rows) |-> rows[i].Duration])
    IN  IF horizon = 0 THEN ZeroMap(machines)
        ELSE [mc \in DOMAIN machine_durations |->
                 Ratio(machine_durations[mc], horizon)]

get_initial_machine_utilization ==
    /\ result' =
          IF ~Loaded
          THEN Raised("get_initial_machine_utilization", "AttributeError")
          ELSE Returned("get_initial_machine_utilization",
                        InitialUtilization)
    /\ UNCHANGED fields

OptimizedUtilization(rows) ==
    LET machine_times ==
            GroupSum(rows, [i \in 1..Len(rows) |->
                               rows[i].End - rows[i].Start])
    IN  IF horizon = 0 THEN ZeroMap(machines)
        ELSE [mc \in DOMAIN machine_times |->
                 Ratio(machine_times[mc], horizon)]

\* pd.DataFrame([]) has no MachineID column to group by.
get_optimized_machine_utilization(df) ==
    /\ result' =
          IF df.rows = <<>>
          THEN Raised("get_optimized_machine_utilization", "KeyError")
          ELSE Returned("get_optimized_machine_utilization",
                        OptimizedUtilization(df.rows))
    /\ UNCHANGED fields

---------------------------------------------------------------------------
(* The scheduler after __init__ (scheduler.py:6-12) in the hands of a      *)
(* caller that holds nothing yet.                                          *)

Fresh ==
    /\ jobs_data = NoFrame
    /\ machines = <<>>
    /\ jobs = <<>>
    /\ horizon = 0
    /\ model = NoModel
    /\ solver = NoSolver
    /\ all_tasks = NoTasks
    /\ result = Returned("__init__", <<>>)
    /\ schedule_df = NoSchedule
    /\ makespan = NoNumber
    /\ before_util = NoMap
    /\ after_util = NoMap

\* Where main() goes after a call: on, or to the except clause (app.py:112).
After(next) == IF result'.outcome = "raised" THEN "error" ELSE next

---------------------------------------------------------------------------
(* Spec: one run of main(), app.py:46-67.                                  *)

Init == Fresh /\ pc = "load_data"

\* app.py:53, on the sample file or the uploaded one
MainLoadData ==
    /\ pc = "load_data"
    /\ \E csv \in Csvs(MaxRows) : load_data(csv)
    /\ pc' = After("create_model")
    /\ UNCHANGED locals

\* app.py:59-61, once the button is pressed
MainCreateModel ==
    /\ pc = "create_model"
    /\ create_model
    /\ pc' = After("solve")
    /\ UNCHANGED locals

\* app.py:62
MainSolve ==
    /\ pc = "solve"
    /\ solve
    /\ pc' = After("get_makespan")
    /\ schedule_df' = IF result'.outcome = "returned"
                      THEN [held |-> TRUE, rows |-> result'.value]
                      ELSE schedule_df
    /\ UNCHANGED <<makespan, before_util, after_util>>

\* app.py:63
MainGetMakespan ==
    /\ pc = "get_makespan"
    /\ get_makespan
    /\ pc' = After("before_util")
    /\ makespan' = IF result'.outcome = "returned"
                   THEN [held |-> TRUE, value |-> result'.value]
                   ELSE makespan
    /\ UNCHANGED <<schedule_df, before_util, after_util>>

\* app.py:66
MainBeforeUtil ==
    /\ pc = "before_util"
    /\ get_initial_machine_utilization
    /\ pc' = After("after_util")
    /\ before_util' = IF result'.outcome = "returned"
                      THEN [held |-> TRUE, map |-> result'.value]
                      ELSE before_util
    /\ UNCHANGED <<schedule_df, makespan, after_util>>

\* app.py:67
MainAfterUtil ==
    /\ pc = "after_util"
    /\ get_optimized_machine_utilization(schedule_df)
    /\ pc' = After("done")
    /\ after_util' = IF result'.outcome = "returned"
                     THEN [held |-> TRUE, map |-> result'.value]
                     ELSE after_util
    /\ UNCHANGED <<schedule_df, makespan, before_util>>

Next ==
    \/ MainLoadData
    \/ MainCreateModel
    \/ MainSolve
    \/ MainGetMakespan
    \/ MainBeforeUtil
    \/ MainAfterUtil

Spec == Init /\ [][Next]_vars

---------------------------------------------------------------------------
(* SpecReuse: one scheduler, the public methods called in any order.  The  *)
(* caller hands the DataFrame solve() just returned to the utilization     *)
(* call and keeps nothing else.                                            *)

InitReuse == Fresh /\ pc = "caller"

CallLoadData ==
    /\ pc = "caller"
    /\ \E csv \in Csvs(MaxReloadRows) : load_data(csv)
    /\ UNCHANGED <<locals, pc>>

CallCreateModel ==
    /\ pc = "caller"
    /\ create_model
    /\ UNCHANGED <<locals, pc>>

CallSolve ==
    /\ pc = "caller"
    /\ solve
    /\ UNCHANGED <<locals, pc>>

CallGetMakespan ==
    /\ pc = "caller"
    /\ get_makespan
    /\ UNCHANGED <<locals, pc>>

CallBeforeUtil ==
    /\ pc = "caller"
    /\ get_initial_machine_utilization
    /\ UNCHANGED <<locals, pc>>

CallAfterUtil ==
    /\ pc = "caller"
    /\ result.op = "solve"
    /\ result.outcome = "returned"
    /\ get_optimized_machine_utilization([held |-> TRUE,
                                          rows |-> result.value])
    /\ UNCHANGED <<locals, pc>>

NextReuse ==
    \/ CallLoadData
    \/ CallCreateModel
    \/ CallSolve
    \/ CallGetMakespan
    \/ CallBeforeUtil
    \/ CallAfterUtil

SpecReuse == InitReuse /\ [][NextReuse]_vars

---------------------------------------------------------------------------
(* Properties.  They are stated over what a caller sees: the records of    *)
(* the DataFrame solve() returned and the rows of the loaded instance.     *)

SolutionFound == solver.status \in {"OPTIMAL", "FEASIBLE"}

UniqueKeys(rows) ==
    \A i \in 1..Len(rows) : \A j \in 1..Len(rows) :
        i # j => Key(rows[i]) # Key(rows[j])

\* [Start, End) of two records have a point in common.
Intersect(r, q) == r.Start < q.End /\ q.Start < r.End

\* q follows r when the records of their job are sorted by TaskID: no
\* record of the job has a TaskID strictly between theirs.
Consecutive(rows, r, q) ==
    /\ r.JobID = q.JobID
    /\ r.TaskID <= q.TaskID
    /\ \A i \in 1..Len(rows) :
          rows[i].JobID = r.JobID =>
              ~(r.TaskID < rows[i].TaskID /\ rows[i].TaskID < q.TaskID)

\* C1: in a schedule solve() returned for an instance with unique
\* (JobID, TaskID) keys, two distinct tasks on the same machine never have
\* intersecting half-open intervals [Start, End).
C1_NonOverlap ==
    (schedule_df.held /\ UniqueKeys(jobs_data.rows)) =>
        \A a \in 1..Len(schedule_df.rows) : \A b \in 1..Len(schedule_df.rows) :
            (a # b /\ schedule_df.rows[a].MachineID
                          = schedule_df.rows[b].MachineID)
                => ~Intersect(schedule_df.rows[a], schedule_df.rows[b])

\* Two tasks of different jobs, both of positive duration, were scheduled on
\* one machine.
C1_Witness ==
    /\ schedule_df.held
    /\ UniqueKeys(jobs_data.rows)
    /\ \E a \in 1..Len(schedule_df.rows) : \E b \in 1..Len(schedule_df.rows) :
          /\ schedule_df.rows[a].JobID # schedule_df.rows[b].JobID
          /\ schedule_df.rows[a].MachineID = schedule_df.rows[b].MachineID
          /\ schedule_df.rows[a].End > schedule_df.rows[a].Start
          /\ schedule_df.rows[b].End > schedule_df.rows[b].Start

\* C2: in a schedule solve() returned, of two records of one job that are
\* consecutive in ascending TaskID order, the earlier ends no later than the
\* later starts, whatever the order of the rows in the input.
C2_Precedence ==
    schedule_df.held =>
        \A a \in 1..Len(schedule_df.rows) : \A b \in 1..Len(schedule_df.rows) :
            (a # b /\ Consecutive(schedule_df.rows, schedule_df.rows[a],
                                  schedule_df.rows[b]))
                => schedule_df.rows[a].End <= schedule_df.rows[b].Start

\* A job whose input rows come in descending TaskID order, both tasks of
\* positive duration, was scheduled.
C2_Witness ==
    /\ schedule_df.held
    /\ Len(jobs_data.rows) = 2
    /\ jobs_data.rows[1].JobID = jobs_data.rows[2].JobID
    /\ jobs_data.rows[1].TaskID > jobs_data.rows[2].TaskID
    /\ jobs_data.rows[1].Duration > 0
    /\ jobs_data.rows[2].Duration > 0

\* C3: every record of a schedule solve() returned has 0 <= Start,
\* End <= horizon and End - Start equal to the Duration it reports.
C3_Bounds ==
    schedule_df.held =>
        \A a \in 1..Len(schedule_df.rows) :
            /\ 0 <= schedule_df.rows[a].Start
            /\ schedule_df.rows[a].End <= horizon
            /\ schedule_df.rows[a].End - schedule_df.rows[a].Start
                   = schedule_df.rows[a].Duration

\* C3 for the instances whose (JobID, TaskID) keys are unique.
C3_BoundsUniqueKeys == UniqueKeys(jobs_data.rows) => C3_Bounds

\* C4: the number get_makespan() returns after a successful solve() is the
\* largest End of the returned schedule.
C4_MakespanIsLastEnd ==
    (makespan.held /\ schedule_df.rows # <<>>) =>
        makespan.value
            = Max({schedule_df.rows[a].End : a \in 1..Len(schedule_df.rows)})

\* The scheduling problem of an instance, stated over its rows: a task per
\* row, a start for each within [0, sum of durations], no two tasks of one
\* machine overlapping, consecutive tasks of a job in TaskID order.
Assignments(rows) ==
    LET n == Len(rows)
        h == TotalDuration(rows)
        End(st, i) == st[i] + rows[i].Duration
    IN  {st \in [1..n -> 0..h] :
            /\ \A i \in 1..n : End(st, i) <= h
            /\ \A i \in 1..n : \A j \in 1..n :
                  (i # j /\ rows[i].MachineID = rows[j].MachineID)
                      => (End(st, i) <= st[j] \/ End(st, j) <= st[i])
            /\ \A i \in 1..n : \A j \in 1..n :
                  (i # j /\ Consecutive(rows, rows[i], rows[j]))
                      => End(st, i) <= st[j]}

\* makespan + sum over the jobs of max(0, jobEnd - deadline), from the End
\* of every task; deadline[job] is the job's deadline.
Cost(rows, ends, deadline) ==
    LET n == Len(rows)
        js == SortedUnique({rows[i].JobID : i \in 1..n})
        JobEnd(job) == Max({ends[i] : i \in {k \in 1..n : rows[k].JobID = job}})
    IN  Max({ends[i] : i \in 1..n})
        + SumSeq([k \in 1..Len(js) |->
                     IF JobEnd(js[k]) > deadline[js[k]]
                     THEN JobEnd(js[k]) - deadline[js[k]] ELSE 0])

\* The Deadline value of the job's first record.
FirstDeadline(rows, job) == rows[RowsOfJob(rows, job)[1]].Deadline

JobsOf(rows) == {rows[i].JobID : i \in 1..Len(rows)}

AssignmentCost(rows, st) ==
    Cost(rows, [i \in 1..Len(rows) |-> st[i] + rows[i].Duration],
         [job \in JobsOf(rows) |-> FirstDeadline(rows, job)])

\* The same with every deadline at the horizon: the instance without
\* deadlines.
DeadlineFreeCost(rows, st) ==
    Cost(rows, [i \in 1..Len(rows) |-> st[i] + rows[i].Duration],
         [job \in JobsOf(rows) |-> TotalDuration(rows)])

ScheduleCost(rows, sched) ==
    Cost(sched, [i \in 1..Len(sched) |-> sched[i].End],
         [job \in JobsOf(rows) |-> FirstDeadline(rows, job)])

\* Some job's deadline is below the least completion time any assignment
\* gives it.
DeadlineOutOfReach(rows) ==
    /\ Assignments(rows) # {}
    /\ \E job \in {rows[i].JobID : i \in 1..Len(rows)} :
          \A st \in Assignments(rows) :
              \E i \in 1..Len(rows) :
                  /\ rows[i].JobID = job
                  /\ st[i] + rows[i].Duration > FirstDeadline(rows, job)

\* The schedule gives every task, in the order of the records, the start
\* and end that the assignment st gives it.
IsScheduleOf(rows, sched, st) ==
    LET order == TaskOrder(rows, SortedUnique({rows[i].JobID :
                                                  i \in 1..Len(rows)}), 1)
    IN  /\ Len(sched) = Len(order)
        /\ \A k \in 1..Len(order) :
              /\ sched[k].Start = st[order[k]]
              /\ sched[k].End = st[order[k]] + rows[order[k]].Duration

OptimumReturned ==
    /\ result.op = "solve"
    /\ result.outcome = "returned"
    /\ solver.status = "OPTIMAL"

\* What C5 says of a schedule returned with status OPTIMAL: it is one of the
\* assignments, none of them costs less, and when some job's deadline is out
\* of reach it costs more than the optimum of the instance without
\* deadlines.
MinimizesCost(rows, sched) ==
    /\ \E st \in Assignments(rows) : IsScheduleOf(rows, sched, st)
    /\ \A st \in Assignments(rows) :
          ScheduleCost(rows, sched) <= AssignmentCost(rows, st)
    /\ DeadlineOutOfReach(rows) =>
          \E st \in Assignments(rows) :
              ScheduleCost(rows, sched) > DeadlineFreeCost(rows, st)

\* C5: when the solver reports OPTIMAL, the returned schedule minimizes
\* makespan + sum of the jobs' tardiness among the assignments satisfying the
\* bounds, no-overlap and precedence constraints, and exceeds the
\* deadline-free optimum when a deadline is out of reach.
C5_OptimalSchedule ==
    OptimumReturned => MinimizesCost(jobs_data.rows, schedule_df.rows)

\* C5 for the instances whose (JobID, TaskID) keys are unique; there the
\* solver's objective value is also the cost of the schedule.
C5_OptimalScheduleUniqueKeys ==
    (OptimumReturned /\ UniqueKeys(jobs_data.rows)) =>
        /\ MinimizesCost(jobs_data.rows, schedule_df.rows)
        /\ solver.objective = ScheduleCost(jobs_data.rows, schedule_df.rows)

\* C6: no instance with zero tasks is ever loaded: load_data fails on it,
\* so create_model never encodes one.
C6_EmptyInstanceRejected ==
    /\ ~(Loaded /\ jobs_data.rows = <<>>)
    /\ result.op = "create_model" => jobs_data.rows # <<>>

\* The records of a schedule are the tasks of the instance, one each.
OneRecordPerTask(rows, sched) ==
    /\ Len(sched) = Len(rows)
    /\ \A k \in {Key(rows[i]) : i \in 1..Len(rows)}
             \cup {Key(sched[i]) : i \in 1..Len(sched)} :
          Cardinality({i \in 1..Len(sched) : Key(sched[i]) = k})
              = Cardinality({i \in 1..Len(rows) : Key(rows[i]) = k})

\* C7: a solve() whose solver status is neither OPTIMAL nor FEASIBLE raises
\* and hands over no schedule; a schedule is returned only for OPTIMAL or
\* FEASIBLE and has exactly one record for every task of the instance.
C7_NoSolutionNoSchedule ==
    /\ (result.op = "solve" /\ ~SolutionFound) =>
          (result.outcome = "raised" /\ ~schedule_df.held)
    /\ schedule_df.held =>
          (SolutionFound /\ OneRecordPerTask(jobs_data.rows, schedule_df.rows))

\* The solver proved a non-empty instance infeasible and solve() raised.
C7_Witness ==
    /\ result.op = "solve"
    /\ solver.status = "INFEASIBLE"
    /\ result.outcome = "raised"
    /\ jobs_data.rows # <<>>
    /\ ~schedule_df.held

\* Every known machine is a key, every ratio lies in [0, 1] and is 0 when
\* the horizon is 0.
WellFormedMap(map) ==
    /\ DOMAIN map = Range(machines)
    /\ \A mc \in DOMAIN map :
          /\ map[mc].total > 0
          /\ 0 <= map[mc].busy
          /\ map[mc].busy <= map[mc].total
          /\ horizon = 0 => map[mc].busy = 0

\* C8: both utilization maps have every known machine as a key and values
\* in [0, 1], 0 when the horizon is 0, and the two maps are equal.
C8_Utilization ==
    /\ before_util.held => WellFormedMap(before_util.map)
    /\ after_util.held =>
          /\ WellFormedMap(after_util.map)
          /\ after_util.map = before_util.map

\* C8 for the instances whose (JobID, TaskID) keys are unique.
C8_UtilizationUniqueKeys == UniqueKeys(jobs_data.rows) => C8_Utilization

\* C9: whatever the order of the calls, a schedule solve() returns is a
\* schedule of the instance loaded last: each record carries the machine and
\* the duration of its task, End - Start is that duration, tasks of one
\* machine do not overlap (keys unique) and the tasks of a job follow in
\* TaskID order.
C9_ScheduleOfLoadedInstance ==
    (result.op = "solve" /\ result.outcome = "returned") =>
        /\ \A a \in 1..Len(result.value) :
              /\ result.value[a].End - result.value[a].Start
                     = result.value[a].Duration
              /\ \E k \in 1..Len(jobs_data.rows) :
                    /\ Key(jobs_data.rows[k]) = Key(result.value[a])
                    /\ jobs_data.rows[k].MachineID = result.value[a].MachineID
                    /\ jobs_data.rows[k].Duration = result.value[a].Duration
        /\ \A a \in 1..Len(result.value) : \A b \in 1..Len(result.value) :
              /\ (a # b /\ UniqueKeys(jobs_data.rows)
                        /\ result.value[a].MachineID = result.value[b].MachineID)
                    => ~Intersect(result.value[a], result.value[b])
              /\ (a # b /\ Consecutive(result.value, result.value[a],
                                       result.value[b]))
                    => result.value[a].End <= result.value[b].Start

\* C10: solve() raises ValueError while no model was created, and
\* get_makespan() raises ValueError unless a solve() found a solution; it
\* returns a value only after one did.
C10_CallOrderGuards ==
    /\ (result.op = "solve" /\ ~model.created) =>
          (result.outcome = "raised" /\ result.error = "ValueError")
    /\ (result.op = "get_makespan" /\ ~SolutionFound) =>
          (result.outcome = "raised" /\ result.error = "ValueError")

====
